---- MODULE Spec2Model ----
(***************************************************************************)
(* Scoring engine (engine/scoring.rs), cascade propagator                  *)
(* (engine/cascade.rs) and the save_daily_log command                      *)
(* (commands/daily_log.rs) of LifeTracker.                                 *)
(*                                                                         *)
(* Number representation.  The code computes in f64; the model computes in *)
(* exact fixed point, every quantity in its own unit:                      *)
(*   points, value, phone minutes, counts   whole numbers                  *)
(*   multipliers, target_fraction, vice_cap, streak_threshold,             *)
(*   bonus per day, max bonus, penalties,                                  *)
(*   positive_score, vice_penalty           1/Scale                        *)
(*   base_score                             1/Scale^2                      *)
(*   final_score                            1/Scale^3                      *)
(* The only rounding is the one division of compute_positive_score.        *)
(* streak and previous_streak are i32 and keep their width.                *)
(*                                                                         *)
(* Dates.  A YYYY-MM-DD string is represented by its rank in string order: *)
(* calendar day d is the even key 2*d, an unparsable string that sorts     *)
(* between day d and day d+1 is the odd key 2*d+1.                         *)
(***************************************************************************)
EXTENDS Integers, Sequences, FiniteSets, TLC

VARIABLES
    input,        \* ScoringInput handed to compute_scores (plus the build profile)
    output,       \* what compute_scores produced for it
    cascade_in,   \* arguments of one compute_cascade call
    cascade_out,  \* what that call returned
    daily_log,    \* the daily_log table: date key -> row or NoRow
    last_save,    \* what the last save_daily_log call did
    replay,       \* what a second compute_scores call on the same input produced
    db_mutex,     \* AppState.db: the command holding the Mutex<Connection>, 0 if free
    commands      \* the Tauri commands in flight: command id -> position and locals

vars == <<input, output, cascade_in, cascade_out, daily_log, last_save, replay,
          db_mutex, commands>>

\* ------------------------------------------------------------------------
\* Units and machine integers
\* ------------------------------------------------------------------------

Scale == 10 * 10

ScaleSq == Scale * Scale

ScaleCube == Scale * Scale * Scale

\* magnitude at which a modelled f64 product saturates (1000.0 in 1/Scale)
F64Huge == 1000 * Scale

I32_MAX == 2147483647

I32_MIN == (0 - I32_MAX) - 1

\* f64::min
Min(a, b) == IF a <= b THEN a ELSE b

\* `streak as f64 * streak_bonus_per_day`: exact inside +-F64Huge, saturated outside
F64MulI32(n, x) ==
    IF x = 0 THEN 0
    ELSE IF n > F64Huge \div x THEN F64Huge
    ELSE IF n < 0 - (F64Huge \div x) THEN 0 - F64Huge
    ELSE n * x

\* ------------------------------------------------------------------------
\* engine/scoring.rs
\* ------------------------------------------------------------------------

HabitCategory == {"Productivity", "Health", "Growth"}

PenaltyMode == {"Flat", "PerInstance", "Tiered"}

\* Option<T>: None is the empty tuple, Some(x) the one-element tuple
None == << >>

Some(x) == <<x>>

unwrap_or(o, d) == IF o = None THEN d ELSE o[1]

category_multiplier(category, config) ==
    CASE category = "Productivity" -> config.multiplier_productivity
      [] category = "Health"       -> config.multiplier_health
      [] category = "Growth"       -> config.multiplier_growth

RECURSIVE compute_max_weighted(_, _)
compute_max_weighted(habits, config) ==
    IF habits = << >> THEN 0
    ELSE LET n == Len(habits)
             h == habits[n]
         IN  compute_max_weighted(SubSeq(habits, 1, n - 1), config)
               + h.points * category_multiplier(h.category, config)

RECURSIVE weighted_sum(_, _)
weighted_sum(habits, config) ==
    IF habits = << >> THEN 0
    ELSE LET n == Len(habits)
             h == habits[n]
         IN  weighted_sum(SubSeq(habits, 1, n - 1), config)
               + h.value * category_multiplier(h.category, config)

compute_positive_score(habits, max_weighted, target_fraction, config) ==
    IF max_weighted = 0 THEN 0
    ELSE LET target == max_weighted * target_fraction
         IN  IF target = 0 THEN 0
             ELSE Min(Scale, (weighted_sum(habits, config) * ScaleSq) \div target)

\* variant: a NaN reading counts as a full day on the phone
safe_phone_nan_saturates(phone_minutes) ==
    IF phone_minutes.nan THEN 1440
    ELSE IF phone_minutes.v < 0 THEN 0 ELSE phone_minutes.v

\* phone_minutes is an f64: [nan |-> BOOLEAN, v |-> Int]
safe_phone(phone_minutes) ==
    IF phone_minutes.nan \/ phone_minutes.v < 0 THEN 0 ELSE phone_minutes.v

\* variant: a PerInstance vice counts only when it is flagged as triggered
vice_contribution_triggered_only(v) ==
    CASE v.penalty_mode = "Flat" ->
            IF v.triggered THEN v.penalty_value ELSE 0
      [] v.penalty_mode = "PerInstance" ->
            IF v.triggered THEN unwrap_or(v.count, 0) * v.penalty_value ELSE 0
      [] v.penalty_mode = "Tiered" -> 0

vice_contribution(v) ==
    CASE v.penalty_mode = "Flat" ->
            IF v.triggered THEN v.penalty_value ELSE 0
      [] v.penalty_mode = "PerInstance" ->
            unwrap_or(v.count, 0) * v.penalty_value
      [] v.penalty_mode = "Tiered" -> 0

RECURSIVE vice_sum(_)
vice_sum(vices) ==
    IF vices = << >> THEN 0
    ELSE LET n == Len(vices)
         IN  vice_sum(SubSeq(vices, 1, n - 1)) + vice_contribution(vices[n])

\* variant: a tier starts strictly above its minimum
phone_penalty_exclusive_bounds(minutes, config) ==
    IF minutes > config.phone_t3_min THEN config.phone_t3_penalty
    ELSE IF minutes > config.phone_t2_min THEN config.phone_t2_penalty
    ELSE IF minutes > config.phone_t1_min THEN config.phone_t1_penalty
    ELSE 0

phone_penalty(minutes, config) ==
    IF minutes >= config.phone_t3_min THEN config.phone_t3_penalty
    ELSE IF minutes >= config.phone_t2_min THEN config.phone_t2_penalty
    ELSE IF minutes >= config.phone_t1_min THEN config.phone_t1_penalty
    ELSE 0

compute_vice_penalty(vices, phone_minutes, config) ==
    Min(config.vice_cap,
        vice_sum(vices) + phone_penalty(safe_phone(phone_minutes), config))

\* variant: the penalty is subtracted instead of multiplied in
compute_base_score_subtractive(positive_score, vice_penalty) ==
    (positive_score - vice_penalty) * Scale

compute_base_score(positive_score, vice_penalty) ==
    positive_score * (Scale - vice_penalty)

\* variant: the first tracked day counts as streak 1
compute_streak_day_one(base_score, previous_streak, streak_threshold) ==
    IF base_score >= streak_threshold * Scale
    THEN IF previous_streak < 0 THEN 1
         ELSE IF previous_streak = I32_MAX THEN I32_MIN ELSE previous_streak + 1
    ELSE 0

\* variant: a day below the threshold keeps the streak instead of resetting it
compute_streak_miss_keeps(base_score, previous_streak, streak_threshold) ==
    IF base_score >= streak_threshold * Scale
    THEN IF previous_streak = I32_MAX THEN I32_MIN ELSE previous_streak + 1
    ELSE previous_streak

\* variant: the function keeps a running streak of its own between calls and
\* continues from the streak it returned last
compute_streak_remembering(base_score, previous_streak, streak_threshold) ==
    IF base_score >= streak_threshold * Scale
    THEN IF output.status = "ok" THEN output.streak + 1
         ELSE IF previous_streak = I32_MAX THEN I32_MIN ELSE previous_streak + 1
    ELSE 0

\* `previous_streak + 1` leaves the i32 range
streak_overflows(base_score, previous_streak, streak_threshold) ==
    base_score >= streak_threshold * Scale /\ previous_streak = I32_MAX

\* the value returned when the addition does not panic (two's complement wrap)
compute_streak(base_score, previous_streak, streak_threshold) ==
    IF base_score >= streak_threshold * Scale
    THEN IF previous_streak = I32_MAX THEN I32_MIN ELSE previous_streak + 1
    ELSE 0

\* variant: the streak bonus grows without the max_streak_bonus cap
compute_final_score_uncapped(base_score, streak, streak_bonus_per_day, max_streak_bonus) ==
    Min(ScaleCube, base_score * (Scale + F64MulI32(streak, streak_bonus_per_day)))

compute_final_score(base_score, streak, streak_bonus_per_day, max_streak_bonus) ==
    LET streak_multiplier == Min(F64MulI32(streak, streak_bonus_per_day), max_streak_bonus)
    IN  Min(ScaleCube, base_score * (Scale + streak_multiplier))

\* in.overflow_checks is the build profile: with overflow checks the i32
\* addition panics, without them it wraps
compute_scores(in) ==
    LET max_weighted   == compute_max_weighted(in.habit_values, in.config)
        positive_score == compute_positive_score(in.habit_values, max_weighted,
                                                 in.config.target_fraction, in.config)
        vice_penalty   == compute_vice_penalty(in.vice_values, in.phone_minutes, in.config)
        base_score     == compute_base_score(positive_score, vice_penalty)
        overflow       == streak_overflows(base_score, in.previous_streak,
                                           in.config.streak_threshold)
        streak         == compute_streak(base_score, in.previous_streak,
                                         in.config.streak_threshold)
        final_score    == compute_final_score(base_score, streak,
                                              in.config.streak_bonus_per_day,
                                              in.config.max_streak_bonus)
    IN  IF overflow /\ in.overflow_checks
        THEN [status |-> "panic"]
        ELSE [status         |-> "ok",
              overflowed     |-> overflow,
              positive_score |-> positive_score,
              vice_penalty   |-> vice_penalty,
              base_score     |-> base_score,
              streak         |-> streak,
              final_score    |-> final_score]

\* ------------------------------------------------------------------------
\* Configurations
\* ------------------------------------------------------------------------

default_config ==
    [multiplier_productivity |-> 150, multiplier_health |-> 130,
     multiplier_growth |-> 100,
     target_fraction |-> 85, vice_cap |-> 40, streak_threshold |-> 65,
     streak_bonus_per_day |-> 1, max_streak_bonus |-> 10,
     phone_t1_min |-> 61, phone_t2_min |-> 181, phone_t3_min |-> 301,
     phone_t1_penalty |-> 3, phone_t2_penalty |-> 7, phone_t3_penalty |-> 12]

\* a second configuration at the edges of the accepted ranges
edge_config ==
    [default_config EXCEPT !.target_fraction = Scale, !.vice_cap = 0,
                           !.streak_threshold = 0,
                           !.streak_bonus_per_day = 10, !.max_streak_bonus = 50]

validate_app_config_input(c) ==
    /\ c.multiplier_productivity > 0
    /\ c.multiplier_health > 0
    /\ c.multiplier_growth > 0
    /\ c.target_fraction > 0 /\ c.target_fraction <= Scale
    /\ c.vice_cap >= 0 /\ c.vice_cap <= Scale
    /\ c.streak_threshold >= 0 /\ c.streak_threshold <= Scale
    /\ c.streak_bonus_per_day >= 0 /\ c.streak_bonus_per_day * 10 <= Scale
    /\ c.max_streak_bonus >= 0 /\ c.max_streak_bonus * 2 <= Scale
    /\ c.phone_t1_min >= 0 /\ c.phone_t1_min <= 1440
    /\ c.phone_t2_min >= 0 /\ c.phone_t2_min <= 1440
    /\ c.phone_t3_min >= 0 /\ c.phone_t3_min <= 1440
    /\ c.phone_t1_min < c.phone_t2_min
    /\ c.phone_t2_min < c.phone_t3_min
    /\ c.phone_t1_penalty >= 0 /\ c.phone_t1_penalty <= Scale
    /\ c.phone_t2_penalty >= 0 /\ c.phone_t2_penalty <= Scale
    /\ c.phone_t3_penalty >= 0 /\ c.phone_t3_penalty <= Scale
    /\ c.phone_t1_penalty < c.phone_t2_penalty
    /\ c.phone_t2_penalty < c.phone_t3_penalty

Configs == {c \in {default_config, edge_config} : validate_app_config_input(c)}

\* ------------------------------------------------------------------------
\* engine/cascade.rs
\* ------------------------------------------------------------------------

\* NaiveDate::parse_from_str(date_str, "%Y-%m-%d") succeeds
is_calendar_date(date_str) == date_str % 2 = 0

\* parse, step one day back, format again
previous_calendar_day(date_str) ==
    IF is_calendar_date(date_str)
    THEN LET date == date_str \div 2
             prev == date - 1
         IN  [ok |-> TRUE, date |-> 2 * prev]
    ELSE [ok |-> FALSE]

\* variant: every day is treated as the first day after a gap
walk_prev_streak_always_gap(prev_day, last_processed_date, last_streak) == 0

\* variant: the walk carries the streak across a gap
walk_prev_streak_no_gap(prev_day, last_processed_date, last_streak) == last_streak

\* gap detection of the forward walk
walk_prev_streak(prev_day, last_processed_date, last_streak) ==
    IF prev_day = last_processed_date THEN last_streak ELSE 0

\* variant: convergence judged on the final score alone
converged_final_only(new_streak, new_final, stored_streak, stored_final) ==
    new_final = stored_final

\* convergence check of the forward walk
converged(new_streak, new_final, stored_streak, stored_final) ==
    new_streak = stored_streak /\ new_final = stored_final

\* the for loop of compute_cascade from entry i on; `stop` and `visited`
\* record how the loop ended and how many entries it looked at
RECURSIVE cascade_walk(_, _, _, _, _, _)
cascade_walk(i, subsequent_days, config, last_processed_date, last_streak, updates) ==
    IF i > Len(subsequent_days)
    THEN [updates |-> updates, stop |-> "exhausted", visited |-> Len(subsequent_days)]
    ELSE
      LET day      == subsequent_days[i]
          prev_day == previous_calendar_day(day.date)
      IN  IF ~prev_day.ok
          THEN [updates |-> updates, stop |-> "invalid_date", visited |-> i]
          ELSE
            LET prev_streak == walk_prev_streak(prev_day.date, last_processed_date,
                                                last_streak)
                new_streak  == compute_streak(day.base_score, prev_streak,
                                              config.streak_threshold)
                new_final   == compute_final_score(day.base_score, new_streak,
                                                   config.streak_bonus_per_day,
                                                   config.max_streak_bonus)
            IN  IF converged(new_streak, new_final, day.streak, day.final_score)
                THEN [updates |-> updates, stop |-> "converged", visited |-> i]
                ELSE cascade_walk(i + 1, subsequent_days, config, day.date, new_streak,
                                  Append(updates,
                                         [date |-> day.date, streak |-> new_streak,
                                          final_score |-> new_final,
                                          positive_score |-> None,
                                          vice_penalty |-> None,
                                          base_score |-> None]))

\* compute_cascade up to the first pass of its for loop: the edited day is
\* pushed, last_processed_date and last_streak are those of the edited day
walk_begin(edited_date, edited_scores) ==
    [status |-> "walking", i |-> 1,
     last_processed_date |-> edited_date, last_streak |-> edited_scores.streak,
     updates |-> << [date |-> edited_date, streak |-> edited_scores.streak,
                     final_score |-> edited_scores.final_score,
                     positive_score |-> Some(edited_scores.positive_score),
                     vice_penalty |-> Some(edited_scores.vice_penalty),
                     base_score |-> Some(edited_scores.base_score)] >>]

\* variant: a changed day is pushed nowhere and looked at again
walk_step_stalls(w, subsequent_days, config) ==
    IF w.i > Len(subsequent_days)
    THEN [status |-> "ok", updates |-> w.updates, stop |-> "exhausted",
          visited |-> Len(subsequent_days)]
    ELSE
      LET day      == subsequent_days[w.i]
          prev_day == previous_calendar_day(day.date)
      IN  IF ~prev_day.ok
          THEN [status |-> "ok", updates |-> w.updates, stop |-> "invalid_date",
                visited |-> w.i]
          ELSE
            LET prev_streak == walk_prev_streak(prev_day.date, w.last_processed_date,
                                                w.last_streak)
                new_streak  == compute_streak(day.base_score, prev_streak,
                                              config.streak_threshold)
                new_final   == compute_final_score(day.base_score, new_streak,
                                                   config.streak_bonus_per_day,
                                                   config.max_streak_bonus)
            IN  IF converged(new_streak, new_final, day.streak, day.final_score)
                THEN [status |-> "ok", updates |-> w.updates, stop |-> "converged",
                      visited |-> w.i]
                ELSE w

\* one pass of the for loop of compute_cascade, or its exit and the return
walk_step(w, subsequent_days, config) ==
    IF w.i > Len(subsequent_days)
    THEN [status |-> "ok", updates |-> w.updates, stop |-> "exhausted",
          visited |-> Len(subsequent_days)]
    ELSE
      LET day      == subsequent_days[w.i]
          prev_day == previous_calendar_day(day.date)
      IN  IF ~prev_day.ok
          THEN [status |-> "ok", updates |-> w.updates, stop |-> "invalid_date",
                visited |-> w.i]
          ELSE
            LET prev_streak == walk_prev_streak(prev_day.date, w.last_processed_date,
                                                w.last_streak)
                new_streak  == compute_streak(day.base_score, prev_streak,
                                              config.streak_threshold)
                new_final   == compute_final_score(day.base_score, new_streak,
                                                   config.streak_bonus_per_day,
                                                   config.max_streak_bonus)
            IN  IF converged(new_streak, new_final, day.streak, day.final_score)
                THEN [status |-> "ok", updates |-> w.updates, stop |-> "converged",
                      visited |-> w.i]
                ELSE [w EXCEPT !.i = w.i + 1,
                               !.last_processed_date = day.date,
                               !.last_streak = new_streak,
                               !.updates = Append(w.updates,
                                                  [date |-> day.date,
                                                   streak |-> new_streak,
                                                   final_score |-> new_final,
                                                   positive_score |-> None,
                                                   vice_penalty |-> None,
                                                   base_score |-> None])]

\* variant: the edited day is not pushed before the walk
cascade_run_forward_only(edited_date, edited_scores, subsequent_days, config) ==
    cascade_walk(1, subsequent_days, config, edited_date, edited_scores.streak, << >>)

\* variant: the edited day is pushed like a forward correction
cascade_run_streak_only(edited_date, edited_scores, subsequent_days, config) ==
    cascade_walk(1, subsequent_days, config, edited_date, edited_scores.streak,
                 << [date |-> edited_date, streak |-> edited_scores.streak,
                     final_score |-> edited_scores.final_score,
                     positive_score |-> None, vice_penalty |-> None,
                     base_score |-> None] >>)

cascade_run(edited_date, edited_scores, subsequent_days, config) ==
    cascade_walk(1, subsequent_days, config, edited_date, edited_scores.streak,
                 << [date |-> edited_date, streak |-> edited_scores.streak,
                     final_score |-> edited_scores.final_score,
                     positive_score |-> Some(edited_scores.positive_score),
                     vice_penalty |-> Some(edited_scores.vice_penalty),
                     base_score |-> Some(edited_scores.base_score)] >>)

\* variant: every subsequent day is returned with its stored values
compute_cascade_whole_tail(edited_date, edited_scores, subsequent_days, config) ==
    [status  |-> "ok",
     updates |-> cascade_run(edited_date, edited_scores, << >>, config).updates
                 \o [i \in 1..Len(subsequent_days) |->
                        [date |-> subsequent_days[i].date,
                         streak |-> subsequent_days[i].streak,
                         final_score |-> subsequent_days[i].final_score,
                         positive_score |-> None, vice_penalty |-> None,
                         base_score |-> None]]]

\* the function returns a plain Vec<CascadeUpdate>: there is no error channel
compute_cascade(edited_date, edited_scores, subsequent_days, config) ==
    [status  |-> "ok",
     updates |-> cascade_run(edited_date, edited_scores, subsequent_days, config).updates]

\* ------------------------------------------------------------------------
\* commands/daily_log.rs
\* ------------------------------------------------------------------------

\* ORDER BY date ASC
RECURSIVE order_by_date(_)
order_by_date(dates) ==
    IF dates = {} THEN << >>
    ELSE LET first == CHOOSE d \in dates : \A e \in dates : d <= e
         IN  <<first>> \o order_by_date(dates \ {first})

\* SQLite date(?1, '-1 day'): NULL (None) for a string that is not a date
sqlite_previous_day(date) ==
    IF is_calendar_date(date) THEN Some(2 * ((date \div 2) - 1)) ELSE None

\* variant: no day-1 convention, an empty history counts as a gap
determine_previous_streak_no_day_one(table, date) ==
    LET prev_day == sqlite_previous_day(date)
    IN  IF prev_day # None /\ prev_day[1] \in DOMAIN table
        THEN table[prev_day[1]].streak
        ELSE 0

\* variant: a gap is scored like the first tracked day
determine_previous_streak_gap_as_day_one(table, date) ==
    LET prev_day == sqlite_previous_day(date)
    IN  IF prev_day # None /\ prev_day[1] \in DOMAIN table
        THEN table[prev_day[1]].streak
        ELSE -1

\* row.get::<_, Option<i32>>: a NULL column is a field the row does not have
column(row, name) == IF name \in DOMAIN row THEN Some(row[name]) ELSE None

\* Option::flatten
flatten(o) == IF o = None THEN None ELSE o[1]

\* variant: a NULL streak on the previous day is scored like the first tracked day
determine_previous_streak_null_as_day_one(table, date) ==
    LET count_before == Cardinality({d \in DOMAIN table : d < date})
        prev_day     == sqlite_previous_day(date)
    IN  IF count_before = 0 THEN -1
        ELSE IF prev_day # None /\ prev_day[1] \in DOMAIN table
             THEN unwrap_or(column(table[prev_day[1]], "streak"), -1)
             ELSE 0

determine_previous_streak(table, date) ==
    LET count_before == Cardinality({d \in DOMAIN table : d < date})
        prev_day     == sqlite_previous_day(date)
        prev_streak  == IF prev_day # None /\ prev_day[1] \in DOMAIN table
                        THEN Some(column(table[prev_day[1]], "streak"))
                        ELSE None
    IN  IF count_before = 0 THEN -1
        ELSE unwrap_or(flatten(prev_streak), 0)

\* variant: the query returns the row of the next calendar day only
load_subsequent_days_next_day_only(table, date) ==
    LET dates == order_by_date({d \in DOMAIN table : d = date + 2})
    IN  [i \in 1..Len(dates) |->
            [date |-> dates[i], base_score |-> table[dates[i]].base_score,
             streak |-> table[dates[i]].streak,
             final_score |-> table[dates[i]].final_score]]

\* WHERE date > ?1 AND base_score, streak, final_score IS NOT NULL, ORDER BY date
load_subsequent_days(table, date) ==
    LET dates == order_by_date({d \in DOMAIN table :
                                  /\ d > date
                                  /\ column(table[d], "base_score") # None
                                  /\ column(table[d], "streak") # None
                                  /\ column(table[d], "final_score") # None})
    IN  [i \in 1..Len(dates) |->
            [date |-> dates[i], base_score |-> table[dates[i]].base_score,
             streak |-> table[dates[i]].streak,
             final_score |-> table[dates[i]].final_score]]

\* the rows of the table after the INSERT or UPDATE of the edited day
write_edited_row(table, date, entry, scores) ==
    [d \in DOMAIN table \cup {date} |->
        IF d = date
        THEN [entry |-> entry,
              positive_score |-> scores.positive_score,
              vice_penalty |-> scores.vice_penalty,
              base_score |-> scores.base_score,
              streak |-> scores.streak,
              final_score |-> scores.final_score]
        ELSE table[d]]

\* variant: the UPDATE statement sets the streak column only
RECURSIVE write_cascade_updates_streak_only(_, _, _)
write_cascade_updates_streak_only(table, updates, i) ==
    IF i > Len(updates) THEN table
    ELSE LET u == updates[i]
         IN  write_cascade_updates_streak_only(
                 [d \in DOMAIN table |->
                     IF d = u.date
                     THEN [table[d] EXCEPT !.streak = u.streak]
                     ELSE table[d]],
                 updates, i + 1)

\* variant: the UPDATE statement matches every row from the update's date on
RECURSIVE write_cascade_updates_from_date_on(_, _, _)
write_cascade_updates_from_date_on(table, updates, i) ==
    IF i > Len(updates) THEN table
    ELSE LET u == updates[i]
         IN  write_cascade_updates_from_date_on(
                 [d \in DOMAIN table |->
                     IF d >= u.date
                     THEN [table[d] EXCEPT !.streak = u.streak,
                                           !.final_score = u.final_score]
                     ELSE table[d]],
                 updates, i + 1)

\* the UPDATE loop over cascade_updates.iter().skip(1)
RECURSIVE write_cascade_updates(_, _, _)
write_cascade_updates(table, updates, i) ==
    IF i > Len(updates) THEN table
    ELSE LET u == updates[i]
         IN  write_cascade_updates(
                 [d \in DOMAIN table |->
                     IF d = u.date
                     THEN [table[d] EXCEPT !.streak = u.streak,
                                           !.final_score = u.final_score]
                     ELSE table[d]],
                 updates, i + 1)

\* what one save does to a table, from the existence check (Step 1) to the
\* last cascade UPDATE (Step 7): the table after the INSERT or UPDATE of the
\* edited day, the cascade result, and the table to be committed.
\* Streaks written by this command never exceed the number of tracked days, so
\* the i32 addition cannot overflow here and the build profile is immaterial.
save_transaction(table, date, entry) ==
    LET scoring_config  == default_config
        previous_streak == determine_previous_streak(table, date)
        scores == compute_scores([habit_values |-> entry.habit_values,
                                  vice_values |-> entry.vice_values,
                                  phone_minutes |-> entry.phone_minutes,
                                  previous_streak |-> previous_streak,
                                  config |-> scoring_config,
                                  overflow_checks |-> FALSE])
        written         == write_edited_row(table, date, entry, scores)
        subsequent_days == load_subsequent_days(written, date)
        run             == cascade_run(date, scores, subsequent_days, scoring_config)
        cascade_updates == compute_cascade(date, scores, subsequent_days,
                                           scoring_config).updates
    IN  IF subsequent_days # << >>
        THEN [existing |-> date \in DOMAIN table, written |-> written,
              cascade_updates |-> cascade_updates,
              table |-> write_cascade_updates(written, cascade_updates, 2),
              stop |-> run.stop,
              corrected |-> {cascade_updates[i].date : i \in 2..Len(cascade_updates)}]
        ELSE [existing |-> date \in DOMAIN table, written |-> written,
              cascade_updates |-> << >>, table |-> written,
              stop |-> "no_cascade", corrected |-> {}]

\* the whole command: one transaction from the existence check to the commit
save_daily_log(date, entry) ==
    LET tx == save_transaction(daily_log, date, entry)
    IN  /\ daily_log' = tx.table
        /\ last_save' = [date |-> date, existing |-> tx.existing, stop |-> tx.stop,
                         corrected |-> tx.corrected]

\* ------------------------------------------------------------------------
\* Bounds and input domains
\* ------------------------------------------------------------------------

\* calendar days 1..NumDays
NumDays == 4

\* the unparsable date string sorts right after this calendar day
BadAfterDay == 2

\* longest subsequent_days list handed to compute_cascade
MaxLen == 3

\* longest subsequent_days list of the walk that is followed pass by pass
WalkLen == 2

\* largest streak stored in a subsequent_days tuple or carried by edited_scores
MaxStoredStreak == 2

CalendarDates == {2 * d : d \in 1..NumDays}

BadDates == {2 * BadAfterDay + 1}

DateStrings == CalendarDates \cup BadDates

Habit(name, value, points, category) ==
    [name |-> name, value |-> value, points |-> points, category |-> category]

Vice(name, triggered, count, penalty_value, penalty_mode) ==
    [name |-> name, triggered |-> triggered, count |-> count,
     penalty_value |-> penalty_value, penalty_mode |-> penalty_mode]

HabitLists ==
    { << >>,
      << Habit("schoolwork", 3, 3, "Productivity"), Habit("gym", 2, 2, "Health") >>,
      << Habit("schoolwork", 3, 3, "Productivity"), Habit("gym", 0, 2, "Health") >>,
      << Habit("schoolwork", 0, 3, "Productivity"), Habit("read", 1, 1, "Growth") >>,
      << Habit("schoolwork", 0, 3, "Productivity"), Habit("gym", 0, 2, "Health") >>,
      << Habit("meditate", 0, 0, "Growth") >> }

ViceLists ==
    { << >>,
      << Vice("porn", TRUE, None, 25, "Flat") >>,
      << Vice("weed", FALSE, None, 12, "Flat") >>,
      << Vice("gaming_1h", TRUE, Some(2), 25, "PerInstance") >>,
      << Vice("gaming_1h", TRUE, None, 25, "PerInstance") >>,
      << Vice("gaming_1h", FALSE, Some(1), 25, "PerInstance") >>,
      << Vice("phone_use", TRUE, Some(3), 30, "Tiered"),
         Vice("skip_class", TRUE, None, 8, "Flat") >> }

F64(v) == [nan |-> FALSE, v |-> v]

NaN == [nan |-> TRUE, v |-> 0]

PhoneInputs ==
    {NaN, F64(-5), F64(0), F64(60), F64(61), F64(180), F64(181), F64(300), F64(301),
     F64(400)}

PrevStreaks == {-1, 0, 1, 10, 11, I32_MAX}

ScoringInputs ==
    [habit_values : HabitLists, vice_values : ViceLists, phone_minutes : PhoneInputs,
     previous_streak : PrevStreaks, config : Configs, overflow_checks : BOOLEAN]

\* day entries of the save command, after build_habit_values / build_vice_values
DayEntries ==
    { [habit_values |-> << Habit("schoolwork", 3, 3, "Productivity"),
                           Habit("gym", 2, 2, "Health") >>,
       vice_values |-> << Vice("porn", FALSE, None, 25, "Flat") >>,
       phone_minutes |-> F64(0)],
      [habit_values |-> << Habit("schoolwork", 3, 3, "Productivity"),
                           Habit("gym", 0, 2, "Health") >>,
       vice_values |-> << Vice("porn", FALSE, None, 25, "Flat") >>,
       phone_minutes |-> F64(30)],
      [habit_values |-> << Habit("schoolwork", 0, 3, "Productivity"),
                           Habit("gym", 0, 2, "Health") >>,
       vice_values |-> << Vice("porn", TRUE, None, 25, "Flat") >>,
       phone_minutes |-> F64(400)] }

\* base scores that occur in stored tuples: one below the threshold, one above
StoredBases == {60 * Scale, 70 * Scale}

final_for(base_score, streak) ==
    compute_final_score(base_score, streak, default_config.streak_bonus_per_day,
                        default_config.max_streak_bonus)

\* stored (base_score, streak, final_score): any streak with its own final
\* score, and streak 0 with a stale final score
StoredValues ==
    { [base_score |-> b, streak |-> s, final_score |-> final_for(b, s)] :
        b \in StoredBases, s \in 0..MaxStoredStreak }
    \cup { [base_score |-> 70 * Scale, streak |-> 0,
             final_score |-> final_for(70 * Scale, 1)] }

AscendingDates(n) ==
    {ds \in [1..n -> {d \in DateStrings : d > 2}] :
        \A i \in 1..(n - 1) : ds[i] < ds[i + 1]}

SubsequentLists(max_len) ==
    UNION { { [i \in 1..n |-> [date |-> ds[i], base_score |-> vs[i].base_score,
                               streak |-> vs[i].streak,
                               final_score |-> vs[i].final_score]] :
                ds \in AscendingDates(n), vs \in [1..n -> StoredValues] } :
            n \in 0..max_len }

\* fresh scores of the edited day: a day below the threshold (streak 0) and a
\* day above it with each streak
EditedScores ==
    { [positive_score |-> 60, vice_penalty |-> 0, base_score |-> 60 * Scale,
       streak |-> 0, final_score |-> final_for(60 * Scale, 0)] }
    \cup { [positive_score |-> 70, vice_penalty |-> 0, base_score |-> 70 * Scale,
             streak |-> s, final_score |-> final_for(70 * Scale, s)] :
             s \in 0..MaxStoredStreak }

\* test vector TV20: day 3 edited down to 0.60, days 4 and 5 stored with
\* streaks 3 and 4
TV20 ==
    [edited_date |-> 2 * 3,
     edited_scores |-> [positive_score |-> 60, vice_penalty |-> 0,
                        base_score |-> 60 * Scale, streak |-> 0,
                        final_score |-> 60 * ScaleSq],
     subsequent_days |->
        << [date |-> 2 * 4, base_score |-> 72 * Scale, streak |-> 3,
            final_score |-> 741600],
           [date |-> 2 * 5, base_score |-> 68 * Scale, streak |-> 4,
            final_score |-> 707200] >>,
     config |-> default_config]

CascadeInputs(max_len) ==
    [edited_date : {2}, edited_scores : EditedScores,
     subsequent_days : SubsequentLists(max_len), config : {default_config}]

\* a daily_log row as insert_scored_row of the tests writes it
ScoredRow(base_score, streak) ==
    [entry |-> [habit_values |-> << >>, vice_values |-> << >>, phone_minutes |-> F64(0)],
     positive_score |-> 0, vice_penalty |-> 0,
     base_score |-> base_score, streak |-> streak,
     final_score |-> final_for(base_score, streak)]

\* a row whose score columns are all NULL
UnscoredRow ==
    [entry |-> [habit_values |-> << >>, vice_values |-> << >>, phone_minutes |-> F64(0)]]

StoredRows ==
    {UnscoredRow} \cup {ScoredRow(70 * Scale, s) : s \in {0, MaxStoredStreak}}

\* every table with rows on some of the given dates
LogTables(dates) == UNION {[present -> StoredRows] : present \in SUBSET dates}

\* ------------------------------------------------------------------------
\* State machines
\* ------------------------------------------------------------------------

Idle == [status |-> "idle"]

Pending == [status |-> "none"]

NoSave == [date |-> 0, existing |-> FALSE, stop |-> "none", corrected |-> {}]

InitScores ==
    /\ input \in ScoringInputs
    /\ output = Pending
    /\ cascade_in = Idle /\ cascade_out = Idle
    /\ daily_log = << >> /\ last_save = NoSave
    /\ replay = Idle /\ db_mutex = 0 /\ commands = Idle

ComputeScores ==
    /\ output = Pending
    /\ output' = compute_scores(input)
    /\ UNCHANGED <<input, cascade_in, cascade_out, daily_log, last_save, replay, db_mutex, commands>>

NextScores == ComputeScores

SpecScores == InitScores /\ [][NextScores]_vars

\* two calls of compute_scores on one input
InitRepeat ==
    /\ input \in ScoringInputs
    /\ output = Pending /\ replay = Pending
    /\ cascade_in = Idle /\ cascade_out = Idle
    /\ daily_log = << >> /\ last_save = NoSave
    /\ db_mutex = 0 /\ commands = Idle

ComputeScoresAgain ==
    /\ output # Pending
    /\ replay = Pending
    /\ replay' = compute_scores(input)
    /\ UNCHANGED <<input, output, cascade_in, cascade_out, daily_log, last_save,
                   db_mutex, commands>>

NextRepeat == ComputeScores \/ ComputeScoresAgain

SpecRepeat == InitRepeat /\ [][NextRepeat]_vars

\* the ScoringOutput of a call that returned
scoring_output(o) ==
    [positive_score |-> o.positive_score, vice_penalty |-> o.vice_penalty,
     base_score |-> o.base_score, streak |-> o.streak, final_score |-> o.final_score]

\* compute_scores followed by compute_cascade on its output, as the save
\* command chains them
CascadeScoredDay ==
    /\ output.status = "ok"
    /\ cascade_out = Idle
    /\ \E subsequent_days \in SubsequentLists(1) :
          /\ cascade_in' = [edited_date |-> 2, edited_scores |-> scoring_output(output),
                            subsequent_days |-> subsequent_days, config |-> input.config]
          /\ cascade_out' = compute_cascade(2, scoring_output(output), subsequent_days,
                                            input.config)
    /\ UNCHANGED <<input, output, daily_log, last_save, replay, db_mutex, commands>>

NextPipeline == ComputeScores \/ CascadeScoredDay

SpecPipeline == InitScores /\ [][NextPipeline]_vars

InitCascade ==
    /\ cascade_in \in CascadeInputs(MaxLen) \cup {TV20}
    /\ cascade_out = Pending
    /\ input = Idle /\ output = Idle
    /\ daily_log = << >> /\ last_save = NoSave
    /\ replay = Idle /\ db_mutex = 0 /\ commands = Idle

ComputeCascade ==
    /\ cascade_out = Pending
    /\ cascade_out' = compute_cascade(cascade_in.edited_date, cascade_in.edited_scores,
                                      cascade_in.subsequent_days, cascade_in.config)
    /\ UNCHANGED <<input, output, cascade_in, daily_log, last_save, replay, db_mutex, commands>>

NextCascade == ComputeCascade

SpecCascade == InitCascade /\ [][NextCascade]_vars

Init ==
    /\ daily_log = << >> /\ last_save = NoSave
    /\ replay = Idle /\ db_mutex = 0 /\ commands = Idle
    /\ input = Idle /\ output = Idle
    /\ cascade_in = Idle /\ cascade_out = Idle

SaveDailyLog ==
    /\ \E date \in DateStrings, entry \in DayEntries : save_daily_log(date, entry)
    /\ UNCHANGED <<input, output, cascade_in, cascade_out, replay, db_mutex, commands>>

Next == SaveDailyLog

Spec == Init /\ [][Next]_vars

SaveCalendarDay ==
    /\ \E date \in CalendarDates, entry \in DayEntries : save_daily_log(date, entry)
    /\ UNCHANGED <<input, output, cascade_in, cascade_out, replay, db_mutex, commands>>

NextCalendar == SaveCalendarDay

SpecCalendar == Init /\ [][NextCalendar]_vars

\* ------------------------------------------------------------------------
\* Commands running concurrently on the one connection behind AppState.db
\* ------------------------------------------------------------------------

\* number of command invocations in flight
NumCommands == 2

Commands == 1..NumCommands

NotCalled == [pc |-> "idle"]

\* variant: lock() returns without waiting for the holder
mutex_lock_no_exclusion(mutex) == TRUE

\* Mutex::lock returns once no other guard is alive
mutex_lock(mutex) == mutex = 0

InitConcurrent ==
    /\ daily_log = << >> /\ last_save = NoSave
    /\ db_mutex = 0 /\ commands = [c \in Commands |-> NotCalled]
    /\ replay = Idle
    /\ input = Idle /\ output = Idle
    /\ cascade_in = Idle /\ cascade_out = Idle

\* save_daily_log is invoked and takes the guard
SaveLock ==
    \E c \in Commands :
    /\ commands[c].pc = "idle"
    /\ mutex_lock(db_mutex)
    /\ \E date \in CalendarDates, entry \in DayEntries :
          commands' = [commands EXCEPT ![c] =
                          [pc |-> "begin", date |-> date, entry |-> entry]]
    /\ db_mutex' = c
    /\ UNCHANGED <<daily_log, input, output, cascade_in, cascade_out, last_save, replay>>

\* Steps 1 to 6 and the cascade computation of Step 7: the edited row is
\* written on the connection, the corrections are still to be written
SaveWriteEditedRow ==
    \E c \in Commands :
    /\ commands[c].pc = "begin"
    /\ LET tx == save_transaction(daily_log, commands[c].date, commands[c].entry)
       IN  /\ daily_log' = tx.written
           /\ commands' = [commands EXCEPT ![c] =
                              [pc |-> "cascade", date |-> commands[c].date,
                               entry |-> commands[c].entry,
                               cascade_updates |-> tx.cascade_updates, i |-> 2]]
    /\ UNCHANGED <<db_mutex, input, output, cascade_in, cascade_out, last_save, replay>>

\* one UPDATE of the loop over cascade_updates.iter().skip(1)
SaveCascadeUpdate ==
    \E c \in Commands :
    /\ commands[c].pc = "cascade"
    /\ commands[c].i <= Len(commands[c].cascade_updates)
    /\ daily_log' = write_cascade_updates(
                        daily_log,
                        SubSeq(commands[c].cascade_updates, 1, commands[c].i),
                        commands[c].i)
    /\ commands' = [commands EXCEPT ![c].i = @ + 1]
    /\ UNCHANGED <<db_mutex, input, output, cascade_in, cascade_out, last_save, replay>>

\* Step 8 and 9: commit, read back, return; the guard is dropped on return
SaveCommitReturn ==
    \E c \in Commands :
    /\ commands[c].pc = "cascade"
    /\ commands[c].i > Len(commands[c].cascade_updates)
    /\ commands' = [commands EXCEPT ![c] = NotCalled]
    /\ db_mutex' = 0
    /\ UNCHANGED <<daily_log, input, output, cascade_in, cascade_out, last_save, replay>>

\* get_daily_log is invoked and takes the guard
GetLock ==
    \E c \in Commands :
    /\ commands[c].pc = "idle"
    /\ mutex_lock(db_mutex)
    /\ commands' = [commands EXCEPT ![c] = [pc |-> "reading"]]
    /\ db_mutex' = c
    /\ UNCHANGED <<daily_log, input, output, cascade_in, cascade_out, last_save, replay>>

\* the query runs and the command returns; the guard is dropped on return
GetQueryReturn ==
    \E c \in Commands :
    /\ commands[c].pc = "reading"
    /\ commands' = [commands EXCEPT ![c] = NotCalled]
    /\ db_mutex' = 0
    /\ UNCHANGED <<daily_log, input, output, cascade_in, cascade_out, last_save, replay>>

NextConcurrent ==
    \/ SaveLock
    \/ SaveWriteEditedRow
    \/ SaveCascadeUpdate
    \/ SaveCommitReturn
    \/ GetLock
    \/ GetQueryReturn

SpecConcurrent == InitConcurrent /\ [][NextConcurrent]_vars

\* compute_cascade pass by pass
InitWalk ==
    /\ cascade_in \in CascadeInputs(WalkLen)
    /\ cascade_out = Pending
    /\ input = Idle /\ output = Idle
    /\ daily_log = << >> /\ last_save = NoSave
    /\ replay = Idle /\ db_mutex = 0 /\ commands = Idle

BeginWalk ==
    /\ cascade_out = Pending
    /\ cascade_out' = walk_begin(cascade_in.edited_date, cascade_in.edited_scores)
    /\ UNCHANGED <<input, output, cascade_in, daily_log, last_save, replay, db_mutex,
                   commands>>

WalkStep ==
    /\ cascade_out.status = "walking"
    /\ cascade_out' = walk_step(cascade_out, cascade_in.subsequent_days,
                                cascade_in.config)
    /\ UNCHANGED <<input, output, cascade_in, daily_log, last_save, replay, db_mutex,
                   commands>>

NextWalk == BeginWalk \/ WalkStep

\* the loop runs on one thread without waiting on anything: a pass that can
\* be taken is taken
SpecWalk == InitWalk /\ [][NextWalk]_vars /\ WF_vars(NextWalk)

InitPreviousStreak ==
    /\ daily_log \in LogTables(DateStrings)
    /\ input \in [date : DateStrings]
    /\ output = Pending
    /\ cascade_in = Idle /\ cascade_out = Idle /\ last_save = NoSave
    /\ replay = Idle /\ db_mutex = 0 /\ commands = Idle

DeterminePreviousStreak ==
    /\ output = Pending
    /\ output' = [status |-> "ok",
                  previous_streak |-> determine_previous_streak(daily_log, input.date)]
    /\ UNCHANGED <<input, cascade_in, cascade_out, daily_log, last_save, replay, db_mutex, commands>>

NextPreviousStreak == DeterminePreviousStreak

SpecPreviousStreak == InitPreviousStreak /\ [][NextPreviousStreak]_vars

\* ------------------------------------------------------------------------
\* Reference notions used by the properties
\* ------------------------------------------------------------------------

CascadeRan == cascade_out.status \notin {"none", "idle"}

AllCalendar(days) == \A i \in 1..Len(days) : is_calendar_date(days[i].date)

\* full forward recomputation of day i from the edited day's new streak
RECURSIVE recomputed_streak(_, _, _, _)
recomputed_streak(days, i, edited_date, edited_streak) ==
    LET pred_date   == IF i = 1 THEN edited_date ELSE days[i - 1].date
        pred_streak == IF i = 1 THEN edited_streak
                       ELSE recomputed_streak(days, i - 1, edited_date, edited_streak)
        p           == IF days[i].date - 2 = pred_date THEN pred_streak ELSE 0
    IN  compute_streak(days[i].base_score, p, default_config.streak_threshold)

recomputed_final(days, i, edited_date, edited_streak) ==
    final_for(days[i].base_score, recomputed_streak(days, i, edited_date, edited_streak))

\* every stored tuple after the first agrees with its stored predecessor
StoredSelfConsistent(days) ==
    \A i \in 2..Len(days) :
        LET p == IF days[i].date - 2 = days[i - 1].date THEN days[i - 1].streak ELSE 0
            s == compute_streak(days[i].base_score, p, default_config.streak_threshold)
        IN  /\ days[i].streak = s
            /\ days[i].final_score = final_for(days[i].base_score, s)

\* the stored tuples after the caller has written the returned corrections
AppliedUpdates(days, updates) ==
    [i \in 1..Len(days) |->
        IF \E j \in 2..Len(updates) : updates[j].date = days[i].date
        THEN LET j == CHOOSE j \in 2..Len(updates) : updates[j].date = days[i].date
             IN  [days[i] EXCEPT !.streak = updates[j].streak,
                                 !.final_score = updates[j].final_score]
        ELSE days[i]]

\* C1: after the returned updates are applied to a self-consistent list of
\* subsequent days, every subsequent day - returned or not - carries the
\* streak and final score of a full forward recomputation from the edited
\* day's new streak.
C1_CascadeSound ==
    (CascadeRan /\ AllCalendar(cascade_in.subsequent_days)
                /\ StoredSelfConsistent(cascade_in.subsequent_days)) =>
        LET days    == cascade_in.subsequent_days
            applied == AppliedUpdates(days, cascade_out.updates)
        IN  \A i \in 1..Len(days) :
                /\ applied[i].streak =
                      recomputed_streak(days, i, cascade_in.edited_date,
                                        cascade_in.edited_scores.streak)
                /\ applied[i].final_score =
                      recomputed_final(days, i, cascade_in.edited_date,
                                       cascade_in.edited_scores.streak)

\* a self-consistent list of three days: one corrected, then convergence
\* with a day left after the convergence point
C1_Witness ==
    /\ CascadeRan
    /\ AllCalendar(cascade_in.subsequent_days)
    /\ StoredSelfConsistent(cascade_in.subsequent_days)
    /\ Len(cascade_in.subsequent_days) = 3
    /\ Len(cascade_out.updates) = 2

\* C2 (as claimed): when the walk meets a date string that does not parse,
\* compute_cascade reports InvalidDate instead of returning updates.
C2_InvalidDateSurfaced ==
    (CascadeRan /\ cascade_run(cascade_in.edited_date, cascade_in.edited_scores,
                               cascade_in.subsequent_days,
                               cascade_in.config).stop = "invalid_date") =>
        cascade_out.status = "InvalidDate"

\* ------------------------------------------------------------------------
\* Properties of the stored chain (save_daily_log)
\* ------------------------------------------------------------------------

MeetsThreshold(row) == row.base_score >= default_config.streak_threshold * Scale

FirstRowDate == CHOOSE d \in DOMAIN daily_log : \A e \in DOMAIN daily_log : d <= e

\* the previous_streak convention, read off the stored table
ConventionStreak(d) ==
    IF \A e \in DOMAIN daily_log : e >= d THEN -1
    ELSE IF (d - 2) \in DOMAIN daily_log THEN daily_log[d - 2].streak
    ELSE 0

C4_NoPartialApplication ==
    last_save.stop = "invalid_date" => last_save.corrected = {}

\* ------------------------------------------------------------------------
\* Properties of compute_scores
\* ------------------------------------------------------------------------

ScoresRan == output.status \notin {"none", "idle"}

\* C5 (as claimed): compute_scores returns for every input, without a panic
\* and without an integer overflow.
C5_ComputeScoresTotal ==
    ScoresRan => (output.status = "ok" /\ ~output.overflowed)

\* C6 (as claimed): with previous_streak following the convention (-1, 0 or
\* a stored streak >= 0) the returned streak is never negative.
C6_StreakNeverNegative ==
    (output.status = "ok" /\ input.previous_streak >= -1) => output.streak >= 0

\* C7 (as claimed): for a valid config the returned final_score lies in
\* [0, 1] and the returned vice_penalty in [0, vice_cap].
C7_ScoresInRange ==
    (output.status = "ok" /\ validate_app_config_input(input.config)) =>
        /\ 0 <= output.final_score /\ output.final_score <= ScaleCube
        /\ 0 <= output.vice_penalty /\ output.vice_penalty <= input.config.vice_cap

\* ------------------------------------------------------------------------
\* Streak as a count of days
\* ------------------------------------------------------------------------

\* number of consecutive calendar days with a row meeting the threshold,
\* ending at and including day d
RECURSIVE RunLength(_)
RunLength(d) ==
    IF d \in DOMAIN daily_log /\ MeetsThreshold(daily_log[d])
    THEN 1 + RunLength(d - 2)
    ELSE 0

\* the run ending at d begins on the first tracked day
RunFromFirstRow(d) ==
    RunLength(d) >= 1 /\ d - 2 * (RunLength(d) - 1) = FirstRowDate

\* C8 (as claimed): every day's streak is the number of consecutive tracked
\* days, ending at that day, that met the threshold.
C8_StreakIsRunLength ==
    \A d \in DOMAIN daily_log : daily_log[d].streak = RunLength(d)

\* C8 (amended): the streak is that number, less one when the run begins on
\* the first tracked day (which is scored with previous_streak = -1).
C8_StreakIsRunLengthAmended ==
    \A d \in DOMAIN daily_log :
        daily_log[d].streak = RunLength(d) - (IF RunFromFirstRow(d) THEN 1 ELSE 0)

\* a run from the first tracked day, a gap, and a run after the gap
C8_Witness ==
    /\ DOMAIN daily_log = {2, 4, 8}
    /\ \A d \in DOMAIN daily_log : MeetsThreshold(daily_log[d])

\* C9: in a gap-free run of days meeting the threshold that starts at the
\* first tracked day, the k-th day has streak k - 1.
C9_StreakOfKthDay ==
    \A d \in DOMAIN daily_log :
        LET k == ((d - FirstRowDate) \div 2) + 1
        IN  (\A j \in 1..k :
                LET e == FirstRowDate + 2 * (j - 1)
                IN  e \in DOMAIN daily_log /\ MeetsThreshold(daily_log[e]))
            => daily_log[d].streak = k - 1

\* every calendar day is tracked and meets the threshold
C9_Witness ==
    /\ DOMAIN daily_log = CalendarDates
    /\ \A d \in DOMAIN daily_log : MeetsThreshold(daily_log[d])

\* ------------------------------------------------------------------------
\* Convergence
\* ------------------------------------------------------------------------

AllMatchRecomputation(days, edited_date, edited_streak) ==
    \A i \in 1..Len(days) :
        /\ days[i].streak = recomputed_streak(days, i, edited_date, edited_streak)
        /\ days[i].final_score = recomputed_final(days, i, edited_date, edited_streak)

\* C10: when every subsequent tuple already carries what recomputation from
\* the edited day's new streak produces, exactly one update is returned.
C10_ConvergedReturnsOne ==
    (CascadeRan /\ AllCalendar(cascade_in.subsequent_days)
                /\ AllMatchRecomputation(cascade_in.subsequent_days,
                                         cascade_in.edited_date,
                                         cascade_in.edited_scores.streak)) =>
        /\ Len(cascade_out.updates) = 1
        /\ cascade_out.updates[1].date = cascade_in.edited_date

\* a list of already-correct days, the first one after a gap
C10_Witness ==
    /\ CascadeRan
    /\ Len(cascade_in.subsequent_days) >= 2
    /\ cascade_in.subsequent_days[1].date > cascade_in.edited_date + 2
    /\ AllCalendar(cascade_in.subsequent_days)
    /\ AllMatchRecomputation(cascade_in.subsequent_days, cascade_in.edited_date,
                             cascade_in.edited_scores.streak)

\* ------------------------------------------------------------------------
\* Shape of the cascade result
\* ------------------------------------------------------------------------

\* C11: the returned list has at least one and at most 1 + len(subsequent_days)
\* elements; for an empty subsequent_days it is the edited-day update alone.
C11_LengthBounded ==
    CascadeRan =>
        /\ Len(cascade_out.updates) >= 1
        /\ Len(cascade_out.updates) <= 1 + Len(cascade_in.subsequent_days)
        /\ cascade_in.subsequent_days = << >> =>
              /\ Len(cascade_out.updates) = 1
              /\ cascade_out.updates[1].date = cascade_in.edited_date

\* the upper bound is met: every one of several subsequent days is corrected
C11_Witness ==
    /\ CascadeRan
    /\ Len(cascade_in.subsequent_days) >= 2
    /\ Len(cascade_out.updates) = 1 + Len(cascade_in.subsequent_days)

\* C12: the first element is the edited day with all five scores of
\* edited_scores; every later element has no positive_score, vice_penalty or
\* base_score and carries streak and final_score only.
C12_FullFirstPartialRest ==
    CascadeRan =>
        LET u == cascade_out.updates
            e == cascade_in.edited_scores
        IN  /\ u[1].date = cascade_in.edited_date
            /\ u[1].positive_score = Some(e.positive_score)
            /\ u[1].vice_penalty = Some(e.vice_penalty)
            /\ u[1].base_score = Some(e.base_score)
            /\ u[1].streak = e.streak
            /\ u[1].final_score = e.final_score
            /\ \A j \in 2..Len(u) :
                  /\ u[j].positive_score = None
                  /\ u[j].vice_penalty = None
                  /\ u[j].base_score = None
                  /\ DOMAIN u[j] = {"date", "streak", "final_score", "positive_score",
                                    "vice_penalty", "base_score"}

\* an edited day with a streak, followed by two forward corrections
C12_Witness ==
    /\ CascadeRan
    /\ cascade_in.edited_scores.streak > 0
    /\ Len(cascade_out.updates) >= 3

\* position of the first subsequent day whose stored (streak, final_score) is
\* what recomputation from the edited day gives; Len + 1 when there is none
FirstConverged(days, edited_date, edited_streak) ==
    LET hits == {i \in 1..Len(days) :
                    /\ days[i].streak =
                          recomputed_streak(days, i, edited_date, edited_streak)
                    /\ days[i].final_score =
                          recomputed_final(days, i, edited_date, edited_streak)}
    IN  IF hits = {} THEN Len(days) + 1
        ELSE CHOOSE i \in hits : \A k \in hits : i <= k

\* C13: the forward corrections are exactly the subsequent days before the
\* first converged one, in order; each differs from the stored tuple in
\* streak or final score; no day from the first converged one on is returned.
C13_ChangedPrefix ==
    (CascadeRan /\ AllCalendar(cascade_in.subsequent_days)) =>
        LET days == cascade_in.subsequent_days
            u    == cascade_out.updates
            m    == FirstConverged(days, cascade_in.edited_date,
                                   cascade_in.edited_scores.streak) - 1
        IN  /\ Len(u) = 1 + m
            /\ \A j \in 1..m :
                  /\ u[j + 1].date = days[j].date
                  /\ \/ u[j + 1].streak # days[j].streak
                     \/ u[j + 1].final_score # days[j].final_score
            /\ \A j \in (m + 1)..Len(days) :
                  \A k \in 2..Len(u) : u[k].date # days[j].date

\* one correction, then a converged day, then a day that is itself stale
C13_Witness ==
    /\ CascadeRan
    /\ AllCalendar(cascade_in.subsequent_days)
    /\ Len(cascade_in.subsequent_days) = 3
    /\ FirstConverged(cascade_in.subsequent_days, cascade_in.edited_date,
                      cascade_in.edited_scores.streak) = 2
    /\ cascade_in.subsequent_days[3].final_score #
          recomputed_final(cascade_in.subsequent_days, 3, cascade_in.edited_date,
                           cascade_in.edited_scores.streak)
    /\ Len(cascade_out.updates) = 2

\* ------------------------------------------------------------------------
\* The caller's previous_streak
\* ------------------------------------------------------------------------

PreviousStreakRan == output.status = "ok"

\* the previous calendar day of `date` has a row
PreviousDayTracked(date) ==
    is_calendar_date(date) /\ (date - 2) \in DOMAIN daily_log

\* C14: determine_previous_streak gives -1 when no row has an earlier date, 0
\* when earlier rows exist but the previous calendar day has no row, 0 when
\* that day's row has a NULL streak, and that row's stored streak otherwise.
C14_PreviousStreakConvention ==
    PreviousStreakRan =>
        LET date == input.date
            r    == output.previous_streak
        IN  IF \A e \in DOMAIN daily_log : e >= date THEN r = -1
            ELSE IF ~PreviousDayTracked(date) THEN r = 0
            ELSE IF "streak" \notin DOMAIN daily_log[date - 2] THEN r = 0
            ELSE r = daily_log[date - 2].streak

\* the previous day's row has a NULL streak, the day before it a streak
C14_Witness ==
    /\ PreviousStreakRan
    /\ PreviousDayTracked(input.date)
    /\ "streak" \notin DOMAIN daily_log[input.date - 2]
    /\ (input.date - 4) \in DOMAIN daily_log
    /\ "streak" \in DOMAIN daily_log[input.date - 4]
    /\ daily_log[input.date - 4].streak > 0
    /\ output.previous_streak = 0

\* ------------------------------------------------------------------------
\* The scoring formulas
\* ------------------------------------------------------------------------

\* C15: every output of compute_scores has base_score = positive_score x
\* (1 - vice_penalty), and the edited-day update of compute_cascade carries
\* that base_score unmodified.
C15_BaseScoreIsProduct ==
    /\ output.status = "ok" =>
          output.base_score = output.positive_score * (Scale - output.vice_penalty)
    /\ CascadeRan =>
          /\ cascade_out.updates[1].base_score = Some(output.base_score)
          /\ cascade_out.updates[1].base_score =
                Some(output.positive_score * (Scale - output.vice_penalty))

\* a partly completed day with a penalty, chained into a cascade that
\* corrected a later day
C15_Witness ==
    /\ output.status = "ok"
    /\ output.positive_score > 0 /\ output.positive_score < Scale
    /\ output.vice_penalty > 0 /\ output.vice_penalty < Scale
    /\ CascadeRan
    /\ Len(cascade_out.updates) = 2

\* C16 (as claimed): for an empty habit list compute_scores returns, with
\* positive_score = 0 and base_score = 0, whatever the other inputs are.
C16_EmptyHabitsScoreZero ==
    (ScoresRan /\ input.habit_values = << >>) =>
        /\ output.status = "ok"
        /\ output.positive_score = 0
        /\ output.base_score = 0

\* phone_minutes after the NaN / negative guard
SanitizedMinutes ==
    IF input.phone_minutes.nan \/ input.phone_minutes.v < 0 THEN 0
    ELSE input.phone_minutes.v

\* penalty of the highest tier whose minimum is <= minutes, 0 below tier 1
HighestTierPenalty(minutes, config) ==
    LET tier_min     == <<config.phone_t1_min, config.phone_t2_min, config.phone_t3_min>>
        tier_penalty == <<config.phone_t1_penalty, config.phone_t2_penalty,
                          config.phone_t3_penalty>>
        qualifying   == {k \in 1..3 : tier_min[k] <= minutes}
    IN  IF qualifying = {} THEN 0
        ELSE tier_penalty[CHOOSE k \in qualifying : \A j \in qualifying : j <= k]

\* C17: the phone contribution to the penalty sum is the penalty of the
\* highest tier whose minimum is <= the sanitized minutes and nothing else;
\* with the default config and no vice 60 gives 0, 61 and 180 give 0.03, 181
\* and 300 give 0.07, 301 gives 0.12.
C17_PhoneTiers ==
    output.status = "ok" =>
        LET p == input.phone_minutes
            exactly(minutes) == ~p.nan /\ p.v = minutes
        IN  /\ output.vice_penalty =
                  Min(input.config.vice_cap,
                      vice_sum(input.vice_values)
                        + HighestTierPenalty(SanitizedMinutes, input.config))
            /\ (input.config = default_config /\ input.vice_values = << >>) =>
                  /\ exactly(60) => output.vice_penalty = 0
                  /\ (exactly(61) \/ exactly(180)) => output.vice_penalty = 3
                  /\ (exactly(181) \/ exactly(300)) => output.vice_penalty = 7
                  /\ exactly(301) => output.vice_penalty = 12

\* 301 minutes qualify for all three tiers and only the third is charged
C17_Witness ==
    /\ output.status = "ok"
    /\ input.config = default_config
    /\ input.vice_values = << >>
    /\ input.phone_minutes = F64(301)
    /\ output.vice_penalty = 12

\* C18: for a NaN or negative phone_minutes compute_scores returns exactly
\* what it returns for phone_minutes = 0 with everything else equal.
C18_BadPhoneIsZero ==
    (ScoresRan /\ (input.phone_minutes.nan \/ input.phone_minutes.v < 0)) =>
        output = compute_scores([input EXCEPT !.phone_minutes = F64(0)])

\* a NaN reading next to a vice that is charged
C18_Witness ==
    /\ output.status = "ok"
    /\ input.phone_minutes.nan
    /\ output.vice_penalty > 0

\* what one vice adds to the uncapped sum
Adds(v) ==
    IF v.penalty_mode = "Flat" THEN (IF v.triggered THEN v.penalty_value ELSE 0)
    ELSE IF v.penalty_mode = "PerInstance"
         THEN (IF v.count = None THEN 0 ELSE v.count[1]) * v.penalty_value
    ELSE 0

RECURSIVE SumAdds(_, _)
SumAdds(vices, i) ==
    IF i > Len(vices) THEN 0 ELSE Adds(vices[i]) + SumAdds(vices, i + 1)

\* C19: with the phone below tier 1, the penalty is the capped sum of
\* penalty_value for each triggered Flat vice and count x penalty_value for
\* each PerInstance vice (absent count as 0, triggered or not); a Tiered vice
\* adds nothing.
C19_ViceContributions ==
    (output.status = "ok" /\ SanitizedMinutes < input.config.phone_t1_min) =>
        output.vice_penalty = Min(input.config.vice_cap, SumAdds(input.vice_values, 1))

\* a PerInstance vice with a count that is not flagged as triggered
C19_Witness ==
    /\ output.status = "ok"
    /\ SanitizedMinutes < input.config.phone_t1_min
    /\ \E i \in 1..Len(input.vice_values) :
          /\ input.vice_values[i].penalty_mode = "PerInstance"
          /\ ~input.vice_values[i].triggered
          /\ input.vice_values[i].count # None
    /\ output.vice_penalty = 25

\* C20 (as claimed): the returned streak is previous_streak + 1 when
\* base_score >= streak_threshold and 0 when it is below, for every
\* previous_streak.
C20_StreakStepOrReset ==
    output.status = "ok" =>
        IF output.base_score >= input.config.streak_threshold * Scale
        THEN /\ output.streak > input.previous_streak
             /\ output.streak - 1 = input.previous_streak
        ELSE output.streak = 0

\* C21: the streak multiplier never exceeds max_streak_bonus, so a streak at
\* or beyond max_streak_bonus / streak_bonus_per_day gives the final score of
\* the saturating streak, a shorter streak gives base_score x (1 + streak x
\* streak_bonus_per_day), and the final score never exceeds 1.
C21_FinalScoreDoubleCap ==
    output.status = "ok" =>
        LET c         == input.config
            uncapped  == output.base_score * (Scale + c.max_streak_bonus)
            saturated == IF uncapped <= ScaleCube THEN uncapped ELSE ScaleCube
        IN  /\ output.final_score <= ScaleCube
            /\ output.final_score <= uncapped
            /\ output.streak >= 0 =>
                  IF output.streak * c.streak_bonus_per_day >= c.max_streak_bonus
                  THEN output.final_score = saturated
                  ELSE LET boosted == output.base_score
                                        * (Scale + output.streak * c.streak_bonus_per_day)
                       IN  output.final_score =
                              (IF boosted <= ScaleCube THEN boosted ELSE ScaleCube)

\* a perfect day with a streak beyond the saturating one: both caps bind
C21_Witness ==
    /\ output.status = "ok"
    /\ output.streak > 0
    /\ output.streak * input.config.streak_bonus_per_day > input.config.max_streak_bonus
    /\ output.base_score * (Scale + input.config.max_streak_bonus) > ScaleCube
    /\ output.final_score = ScaleCube

EndedProperly ==
    LET days == cascade_in.subsequent_days
        v    == cascade_out.visited
        seen == SubSeq(days, 1, v)
        e    == cascade_in.edited_scores.streak
    IN  /\ v <= Len(days)
        /\ cascade_out.updates =
              compute_cascade(cascade_in.edited_date, cascade_in.edited_scores,
                              days, cascade_in.config).updates
        /\ \/ /\ cascade_out.stop = "exhausted"
              /\ v = Len(days) /\ AllCalendar(days)
              /\ FirstConverged(days, cascade_in.edited_date, e) = Len(days) + 1
           \/ /\ cascade_out.stop = "converged"
              /\ v >= 1 /\ AllCalendar(seen)
              /\ FirstConverged(seen, cascade_in.edited_date, e) = v
           \/ /\ cascade_out.stop = "invalid_date"
              /\ v >= 1 /\ ~is_calendar_date(days[v].date)
              /\ AllCalendar(SubSeq(days, 1, v - 1))
              /\ FirstConverged(SubSeq(days, 1, v - 1), cascade_in.edited_date, e) = v

\* C23: every walk ends; each pass looks at the next entry of the list, so
\* no entry is visited twice or out of order; and the walk ends by exhausting
\* the list or at the first converged or unparsable day.
C23_WalkTerminates ==
    /\ <>(cascade_out.status = "ok")
    /\ [][cascade_out.status = "walking" =>
             \/ /\ cascade_out'.status = "walking"
                /\ cascade_out'.i = cascade_out.i + 1
                /\ cascade_out'.i <= Len(cascade_in.subsequent_days) + 1
             \/ /\ cascade_out'.status = "ok"
                /\ cascade_out'.visited \in {cascade_out.i, cascade_out.i - 1}]_vars
    /\ [](cascade_out.status = "ok" => EndedProperly)

\* a walk that corrected the first day and stopped at the second, converged
C23_Witness ==
    /\ cascade_out.status = "ok"
    /\ cascade_out.stop = "converged"
    /\ cascade_out.visited = 2
    /\ Len(cascade_out.updates) = 2

\* ------------------------------------------------------------------------
\* Gaps, runs and streak breakers
\* ------------------------------------------------------------------------

\* rows after the saved day whose previous calendar day has no row
GapDaysAfter(date) ==
    {d \in DOMAIN daily_log : d > date /\ (d - 2) \notin DOMAIN daily_log}

\* what the gap rule gives every corrected row: the streak of its previous
\* calendar day if that day has a row, 0 across a gap
CorrectedByGapRule ==
    \A d \in last_save.corrected :
        LET p == IF (d - 2) \in DOMAIN daily_log THEN daily_log[d - 2].streak ELSE 0
        IN  daily_log[d].streak =
               compute_streak(daily_log[d].base_score, p, default_config.streak_threshold)

\* C24 (as claimed): corrected rows follow the gap rule, and a save corrects
\* neither the first day after a calendar gap nor any day after it.
C24_GapIsolates ==
    /\ CorrectedByGapRule
    /\ \A g \in GapDaysAfter(last_save.date) :
          \A d \in last_save.corrected : d < g

\* C24 (amended): corrected rows follow the gap rule, and a save corrects a
\* day at or after a calendar gap only when the saved day is a new row before
\* every tracked day and the gap is the one right after it: the day after
\* that gap was scored as the first tracked day (previous_streak = -1) and is
\* now a day after a gap (previous_streak = 0).
C24_GapIsolatesAmended ==
    /\ CorrectedByGapRule
    /\ \A g \in GapDaysAfter(last_save.date) :
          (\E d \in last_save.corrected : d >= g) =>
              /\ ~last_save.existing
              /\ \A e \in DOMAIN daily_log : e >= last_save.date
              /\ \A e \in DOMAIN daily_log : e > last_save.date => e >= g
              /\ g \in last_save.corrected
              /\ MeetsThreshold(daily_log[g])

\* a day with a streak is saved between a tracked day and a gap; the day
\* after the gap keeps its streak of 1
C24_Witness ==
    /\ last_save.date = 4
    /\ DOMAIN daily_log = {2, 4, 8}
    /\ daily_log[4].streak = 1
    /\ MeetsThreshold(daily_log[8])
    /\ daily_log[8].streak = 1
    /\ last_save.stop = "converged"
    /\ last_save.corrected = {}

\* consecutive calendar days right after the edited day, each meeting the
\* threshold, stored as a run that continues from a streak other than the
\* edited day's new one
StaleUnbrokenRun(days, edited_date, edited_streak, config) ==
    /\ Len(days) >= 1
    /\ \A k \in 1..Len(days) :
          /\ days[k].date = edited_date + 2 * k
          /\ days[k].base_score >= config.streak_threshold * Scale
          /\ days[k].streak = days[1].streak + (k - 1)
    /\ days[1].streak - 1 # edited_streak

\* C25: for such a run every day is returned, the k-th with streak =
\* edited streak + k and the final score compute_final_score gives for its
\* stored base score and that streak; TV20 gives streaks 1 and 2 with final
\* scores 0.7272 and 0.6936.
C25_UniformPropagation ==
    CascadeRan =>
        LET days == cascade_in.subsequent_days
            e    == cascade_in.edited_scores.streak
            c    == cascade_in.config
            u    == cascade_out.updates
        IN  /\ StaleUnbrokenRun(days, cascade_in.edited_date, e, c) =>
                  /\ Len(u) = 1 + Len(days)
                  /\ \A k \in 1..Len(days) :
                        /\ u[k + 1].date = days[k].date
                        /\ u[k + 1].streak = e + k
                        /\ u[k + 1].final_score =
                              compute_final_score(days[k].base_score, e + k,
                                                  c.streak_bonus_per_day,
                                                  c.max_streak_bonus)
            /\ cascade_in = TV20 =>
                  /\ Len(u) = 3
                  /\ u[2].streak = 1 /\ u[2].final_score = 727200
                  /\ u[3].streak = 2 /\ u[3].final_score = 693600

\* a stale run of three days after an edited day that has a streak itself
C25_Witness ==
    /\ CascadeRan
    /\ Len(cascade_in.subsequent_days) = 3
    /\ cascade_in.edited_scores.streak > 0
    /\ StaleUnbrokenRun(cascade_in.subsequent_days, cascade_in.edited_date,
                        cascade_in.edited_scores.streak, cascade_in.config)
    /\ Len(cascade_out.updates) = 4

\* a stored day below the threshold that carries what a reset gives it:
\* streak 0 and final_score = base_score
StoredBreaker(day, config) ==
    /\ day.base_score < config.streak_threshold * Scale
    /\ day.streak = 0
    /\ day.final_score = day.base_score * Scale

\* C26: no update is returned for a subsequent day below the threshold that
\* is stored with streak 0 and final_score = base_score, nor for any day after
\* it, whatever was returned for the days before it.
C26_BreakerStopsCascade ==
    CascadeRan =>
        \A j \in 1..Len(cascade_in.subsequent_days) :
            StoredBreaker(cascade_in.subsequent_days[j], cascade_in.config) =>
                \A k \in 2..Len(cascade_out.updates) :
                    cascade_out.updates[k].date < cascade_in.subsequent_days[j].date

\* the first day is corrected, the second is a streak breaker, a third
\* day follows it
C26_Witness ==
    /\ CascadeRan
    /\ Len(cascade_in.subsequent_days) = 3
    /\ AllCalendar(cascade_in.subsequent_days)
    /\ StoredSelfConsistent(cascade_in.subsequent_days)
    /\ cascade_in.edited_scores.streak > 0
    /\ StoredBreaker(cascade_in.subsequent_days[2], cascade_in.config)
    /\ cascade_in.subsequent_days[2].date = cascade_in.subsequent_days[1].date + 2
    /\ Len(cascade_out.updates) = 2

\* ------------------------------------------------------------------------
\* The save command as a whole
\* ------------------------------------------------------------------------

\* C27: a save for date D adds or rewrites the row of D; of the other rows
\* it changes only streak and final_score, and only on rows after D that are
\* in the cascade result; every other row and every other column stays as
\* it was.
C27_WriteBackFrame ==
    [][LET D == last_save'.date
       IN  /\ DOMAIN daily_log' = DOMAIN daily_log \cup {D}
           /\ \A d \in last_save'.corrected : d > D /\ d \in DOMAIN daily_log
           /\ \A d \in DOMAIN daily_log \ {D} :
                 /\ daily_log'[d].entry = daily_log[d].entry
                 /\ daily_log'[d].positive_score = daily_log[d].positive_score
                 /\ daily_log'[d].vice_penalty = daily_log[d].vice_penalty
                 /\ daily_log'[d].base_score = daily_log[d].base_score
                 /\ (d < D \/ d \notin last_save'.corrected) =>
                       daily_log'[d] = daily_log[d]]_vars

\* the second of four days was saved: the third day was corrected, the
\* fourth and the first were not
C27_Witness ==
    /\ DOMAIN daily_log = {2, 4, 6, 8}
    /\ last_save.date = 4
    /\ last_save.corrected = {6}

\* the stored tuples after the UPDATE loop has written the cascade result
WrittenBack(days, updates) ==
    LET table   == [d \in {days[i].date : i \in 1..Len(days)} |->
                       LET i == CHOOSE k \in 1..Len(days) : days[k].date = d
                       IN  days[i]]
        written == write_cascade_updates(table, updates, 2)
    IN  [i \in 1..Len(days) |-> written[days[i].date]]

\* C29: once the updates of a cascade are written to the stored tuples, a
\* second cascade with the same edited day and config returns the edited day
\* alone, whether or not the stored chain was self-consistent.
C29_CascadeIdempotent ==
    CascadeRan =>
        LET again == compute_cascade(
                         cascade_in.edited_date, cascade_in.edited_scores,
                         WrittenBack(cascade_in.subsequent_days,
                                        cascade_out.updates),
                         cascade_in.config)
        IN  /\ again.status = "ok"
            /\ Len(again.updates) = 1
            /\ again.updates[1] = cascade_out.updates[1]
            /\ again.updates[1].date = cascade_in.edited_date

\* a chain that was not self-consistent, of which the first call corrected
\* two days and left the third
C29_Witness ==
    /\ CascadeRan
    /\ Len(cascade_in.subsequent_days) = 3
    /\ ~StoredSelfConsistent(cascade_in.subsequent_days)
    /\ Len(cascade_out.updates) = 3
    /\ WrittenBack(cascade_in.subsequent_days, cascade_out.updates)
          # cascade_in.subsequent_days

\* the table after saving entries[order[i]], entries[order[i + 1]], ... in
\* that order, one save_daily_log transaction each
RECURSIVE saved_in_order(_, _, _, _)
saved_in_order(table, entries, order, i) ==
    IF i > Len(order) THEN table
    ELSE saved_in_order(save_transaction(table, order[i], entries[order[i]]).table,
                        entries, order, i + 1)

reversed(order) == [i \in 1..Len(order) |-> order[Len(order) + 1 - i]]

stored_scores(row) == <<row.base_score, row.streak, row.final_score>>

CorrectionsPending(c) ==
    /\ commands[c].pc = "cascade"
    /\ commands[c].i <= Len(commands[c].cascade_updates)

\* the stored chain of a table agrees with the previous_streak convention
TableConsistent(table) ==
    \A d \in DOMAIN table :
        LET p == IF \A e \in DOMAIN table : e >= d THEN -1
                 ELSE IF (d - 2) \in DOMAIN table THEN table[d - 2].streak
                 ELSE 0
            s == compute_streak(table[d].base_score, p,
                                default_config.streak_threshold)
        IN  /\ table[d].streak = s
            /\ table[d].final_score = final_for(table[d].base_score, s)

\* C28: a command that is between taking the guard and returning holds the
\* mutex and every other command is outside its critical section, so no
\* command reads or writes daily_log while a save has corrections pending;
\* the table a command finds when it starts to read or to save is a
\* committed one, with every cascade correction written.
C28_SaveAtomicSerialized ==
    \A c \in Commands :
        commands[c].pc # "idle" =>
            /\ db_mutex = c
            /\ \A other \in Commands \ {c} : commands[other].pc = "idle"
            /\ commands[c].pc \in {"begin", "reading"} => TableConsistent(daily_log)

\* a save has written the first of two corrections while the other command
\* is waiting outside
C28_Witness ==
    \E c \in Commands :
        /\ CorrectionsPending(c)
        /\ Len(commands[c].cascade_updates) = 3
        /\ commands[c].i = 3
        /\ ~TableConsistent(daily_log)
        /\ db_mutex = c

====
